---- MODULE Spec2Model ----
(***************************************************************************)
(* Model of src/integrations/qbraid_integration.py: the quantum audio      *)
(* orchestration layer PitchforkEchoStudioQuantum (result analyzer, suite  *)
(* runner, metrics aggregator) and its command-line smoke test.            *)
(*                                                                         *)
(* Value conventions                                                       *)
(*  - a Python dict is a TLA+ record/function; `"k" in d` is               *)
(*    "k" \in DOMAIN d;                                                    *)
(*  - result.counts (an insertion-ordered dict label -> count) is a        *)
(*    sequence of [label, count] records with distinct labels; a label     *)
(*    (bitstring) is the natural number it spells, "0101" = 5;             *)
(*  - a true division a / b is the pair <<a, b>> (an exact rational);      *)
(*  - a call either returns or raises: [kind |-> "return", value |-> v]    *)
(*    or [kind |-> "raise", error |-> str(e)];                             *)
(*  - the harmony score is kept in fixed point, scaled by HarmonyScale.    *)
(***************************************************************************)
EXTENDS Integers, Sequences, FiniteSets, TLC

VARIABLES
    pc,           \* position of the running code
    calls,        \* log of manager.execute_quantum_job calls: [op, by]
    returned,     \* what the manager answered to each call of the suite run
    pending,      \* outcome of operation() inside the current loop iteration
    idx,          \* index of the loop of run_all_audio_operations
    results,      \* the dict `results` of run_all_audio_operations
    metrics,      \* what get_audio_performance_metrics gave
    uncaught,     \* where the exception caught by the driver's handler arose
    exit_status,  \* the status passed to sys.exit
    arg,          \* argument of a direct call of the analyzer
    ret           \* outcome of that call

vars == <<pc, calls, returned, pending, idx, results, metrics, uncaught,
          exit_status, arg, ret>>

----------------------------------------------------------------------------
(* Bounds of the model *)

\* labels of the histograms given to the analyzer: 0 .. MaxLabels-1
MaxLabels == 2
\* largest count of one label in those histograms
MaxCount == 3
\* widest uniform histogram given to the analyzer (one shot per label)
MaxWide == 17
\* largest count the manager reports for the label of a suite histogram
MaxShots == 1

(* Program constants *)

\* harmony / 4.0
HarmonyDivisor == 4
\* result.execution_time < 30
FastTime == 30
\* len(result.counts) > 8
HighDiversity == 8

(* Fixed point: fractional bits of the harmony score, of log2's argument *)
FracBits == 8
ArgBits == 12

----------------------------------------------------------------------------
(* Calls *)

Return(v) == [kind |-> "return", value |-> v]
Raise(e) == [kind |-> "raise", error |-> e]

NoCall == [kind |-> "none"]

(* Arithmetic helpers *)

RECURSIVE Pow2(_)
Pow2(n) == IF n = 0 THEN 1 ELSE 2 * Pow2(n - 1)

Min(a, b) == IF a <= b THEN a ELSE b

\* rationals as pairs <<numerator, denominator>>, denominator > 0
FracGeq(q, num, den) == q[1] * den >= num * q[2]
RECURSIVE Gcd(_, _)
Gcd(a, b) == IF b = 0 THEN a ELSE Gcd(b, a % b)
FracReduce(q) == LET g == Gcd(q[1], q[2]) IN <<q[1] \div g, q[2] \div g>>
FracAdd(p, q) == FracReduce(<<p[1] * q[2] + q[1] * p[2], p[2] * q[2]>>)
FracDivInt(q, n) == <<q[1], q[2] * n>>
FracOfInt(n) == <<n, 1>>

----------------------------------------------------------------------------
(* math.log2 in fixed point *)

HarmonyScale == Pow2(FracBits)
ArgOne == Pow2(ArgBits)

\* largest e with 2^e <= n, n >= 1
RECURSIVE ILog2(_)
ILog2(n) == IF n < 2 THEN 0 ELSE 1 + ILog2(n \div 2)

\* the i fractional bits of log2(x / ArgOne), ArgOne <= x < 2 * ArgOne, by
\* repeated squaring
RECURSIVE LogFrac(_, _)
LogFrac(x, i) ==
    IF i = 0 THEN 0
    ELSE LET sq == (x * x) \div ArgOne
         IN  IF sq >= 2 * ArgOne
             THEN Pow2(i - 1) + LogFrac(sq \div 2, i - 1)
             ELSE LogFrac(sq, i - 1)

\* log2(n) * HarmonyScale, rounded down, n >= 1
Log2Fix(n) ==
    LET e == ILog2(n)
    IN  e * HarmonyScale + LogFrac((n * ArgOne) \div Pow2(e), FracBits)

----------------------------------------------------------------------------
(* The result analyzer *)

\* sum(counts.values())
RECURSIVE SumCounts(_)
SumCounts(counts) ==
    IF Len(counts) = 0 THEN 0
    ELSE Head(counts).count + SumCounts(Tail(counts))

\* max(counts.items(), key=lambda x: x[1]): the first item of largest count
RECURSIVE MaxFrom(_, _)
MaxFrom(best, rest) ==
    IF Len(rest) = 0 THEN best
    ELSE MaxFrom(IF Head(rest).count > best.count THEN Head(rest) ELSE best,
                 Tail(rest))

most_common_last(counts) == counts[Len(counts)]

\* most_common = max(result.counts.items(), key=lambda x: x[1])
most_common_of(counts) == MaxFrom(Head(counts), Tail(counts))

\* the loop of _calculate_harmony: the sum over the labels of count > 0 of
\* -(count/total) * log2(count/total), as count * (log2 total - log2 count)
\* summed and then divided by total
RECURSIVE EntropySum(_, _)
EntropySum(counts, total) ==
    IF Len(counts) = 0 THEN 0
    ELSE (IF Head(counts).count > 0
          THEN Head(counts).count * (Log2Fix(total) - Log2Fix(Head(counts).count))
          ELSE 0)
         + EntropySum(Tail(counts), total)

calculate_harmony_no_clamp(counts) ==
    LET total == SumCounts(counts)
    IN  IF total = 0 THEN 0
        ELSE (EntropySum(counts, total) \div total) \div HarmonyDivisor

\* _calculate_harmony
calculate_harmony(counts) ==
    LET total == SumCounts(counts)
    IN  IF total = 0 THEN 0
        ELSE Min(HarmonyScale,
                 (EntropySum(counts, total) \div total) \div HarmonyDivisor)

\* _generate_audio_insights
generate_audio_insights(result) ==
    IF result.success
    THEN <<"Quantum audio synthesis achieved",
           "Consciousness-enhanced audio quantum-processed">>
         \o (IF result.execution_time < FastTime
             THEN <<"Fast audio processing achieved">> ELSE <<>>)
         \o (IF Len(result.counts) > HighDiversity
             THEN <<"High audio diversity - excellent creative potential">>
             ELSE <<>>)
    ELSE <<"Fallback to classical audio algorithms recommended">>

\* the body of analyze_audio_effectiveness after the success test
analyze_counts(result) ==
    IF Len(result.counts) = 0
    THEN Raise("max() arg is an empty sequence")
    ELSE LET total_shots == SumCounts(result.counts)
             most_common == most_common_of(result.counts)
         IN  IF total_shots = 0
             THEN Raise("division by zero")
             ELSE Return([audio_quality   |-> <<most_common.count, total_shots>>,
                          optimal_audio   |-> most_common.label,
                          audio_diversity |-> Len(result.counts),
                          quantum_harmony |-> calculate_harmony(result.counts),
                          audio_insights  |-> generate_audio_insights(result)])

analyze_arithmetic_first(result) ==
    LET a == analyze_counts(result)
    IN  IF a.kind = "raise" THEN a
        ELSE IF ~result.success THEN Return([error |-> "quantum_audio_failed"])
        ELSE a

\* analyze_audio_effectiveness
analyze_audio_effectiveness(result) ==
    IF ~result.success
    THEN Return([error |-> "quantum_audio_failed"])
    ELSE analyze_counts(result)

----------------------------------------------------------------------------
(* Inputs of the analyzer *)

Item(l, c) == [label |-> l, count |-> c]

LabelsOf(counts) == {counts[i].label : i \in 1..Len(counts)}

\* every histogram of n distinct labels of 0..MaxLabels-1, in every order
RECURSIVE HistsOfLen(_)
HistsOfLen(n) ==
    IF n = 0 THEN {<<>>}
    ELSE UNION {{Append(h, Item(l, c)) :
                    l \in (0..(MaxLabels - 1)) \ LabelsOf(h), c \in 0..MaxCount} :
                h \in HistsOfLen(n - 1)}

\* one shot on each of the labels 0..k-1
UniformHist(k) == [i \in 1..k |-> Item(i - 1, 1)]

\* counts {"0101": 80, "1010": 20}
ScenarioCounts == <<Item(5, 80), Item(10, 20)>>

\* two labels seen equally often
TieCounts == <<Item(5, 1), Item(10, 1)>>

AnalyzerHists ==
    UNION {HistsOfLen(n) : n \in 0..MaxLabels}
    \cup {UniformHist(k) : k \in 1..MaxWide}
    \cup {ScenarioCounts, TieCounts}

ExecTimes == {12, 30}

JobResult(s, c, t) == [success |-> s, counts |-> c, execution_time |-> t]

AnalyzerInputs ==
    {JobResult(s, c, t) : s \in BOOLEAN, c \in AnalyzerHists, t \in ExecTimes}

----------------------------------------------------------------------------
(* The external manager *)

\* the histograms the manager reports in a run of the driver
SuiteHists ==
    {<<>>} \cup {<<Item(5, c)>> : c \in 0..MaxShots}
    \cup {ScenarioCounts, TieCounts}

SuiteTimes == {12}

\* manager.execute_quantum_job(job) raises, reports a failure, or succeeds
ManagerOutcomes ==
    {Raise("job submission failed")}
    \cup {Return(JobResult(FALSE, <<>>, t)) : t \in SuiteTimes}
    \cup {Return(JobResult(TRUE, c, t)) : c \in SuiteHists, t \in SuiteTimes}

\* one call of manager.execute_quantum_job: the operation named in the job's
\* metadata, who called it, and whether the call raised
Job(operation, by, raised) == [operation |-> operation, by |-> by, raised |-> raised]

----------------------------------------------------------------------------
(* The suite runner *)

\* the list `operations` of run_all_audio_operations
operations ==
    << [name |-> "Audio Synthesis",         operation |-> "quantum_audio_synthesis"],
       [name |-> "Consciousness Audio",     operation |-> "quantum_consciousness_audio"],
       [name |-> "Echo Optimization",       operation |-> "quantum_echo_optimization"],
       [name |-> "Frequency Harmonization", operation |-> "quantum_frequency_harmonization"],
       [name |-> "Spatial Audio",           operation |-> "quantum_spatial_audio"] >>

OperationNames == {operations[i].name : i \in 1..Len(operations)}

EmptyDict == [k \in {} |-> 0]

suite_entry_no_analysis_guard(outcome) ==
    IF outcome.kind = "raise"
    THEN [error |-> outcome.error]
    ELSE LET analysis == analyze_audio_effectiveness(outcome.value)
         IN  [quantum_result |-> outcome.value,
              audio_analysis |-> IF analysis.kind = "raise"
                                 THEN [error |-> analysis.error]
                                 ELSE analysis.value]

\* the try/except of one loop iteration: what results[name] becomes
suite_entry(outcome) ==
    IF outcome.kind = "raise"
    THEN [error |-> outcome.error]
    ELSE LET analysis == analyze_audio_effectiveness(outcome.value)
         IN  IF analysis.kind = "raise"
             THEN [error |-> analysis.error]
             ELSE [quantum_result |-> outcome.value,
                   audio_analysis |-> analysis.value]

----------------------------------------------------------------------------
(* The metrics aggregator *)

\* results.values(), in the order of insertion
ValuesOf(res) ==
    LET keys == SelectSeq([i \in 1..Len(operations) |-> operations[i].name],
                          LAMBDA n : n \in DOMAIN res)
    IN  [i \in 1..Len(keys) |-> res[keys[i]]]

Succeeded(r) == "quantum_result" \in DOMAIN r /\ r.quantum_result.success

\* r["audio_analysis"].get("audio_quality", 0)
QualityOf(r) ==
    IF "audio_quality" \in DOMAIN r.audio_analysis
    THEN r.audio_analysis.audio_quality
    ELSE FracOfInt(0)

RECURSIVE SumTimes(_)
SumTimes(ops) ==
    IF Len(ops) = 0 THEN 0
    ELSE Head(ops).quantum_result.execution_time + SumTimes(Tail(ops))

RECURSIVE SumQuality(_)
SumQuality(ops) ==
    IF Len(ops) = 0 THEN FracOfInt(0)
    ELSE FracAdd(QualityOf(Head(ops)), SumQuality(Tail(ops)))

\* the recommendations appended at the end of get_audio_performance_metrics
RecommendationsStrict(success_rate, avg_quality) ==
    (IF success_rate[1] * 10 > 8 * success_rate[2]
     THEN <<"Audio system ready for quantum-enhanced production">>
     ELSE IF FracGeq(success_rate, 6, 10)
     THEN <<"Audio system ready for advanced quantum processing">>
     ELSE <<>>)
    \o (IF FracGeq(avg_quality, 7, 10)
        THEN <<"Conscious-level audio quality achieved">> ELSE <<>>)

Recommendations(success_rate, avg_quality) ==
    (IF FracGeq(success_rate, 8, 10)
     THEN <<"Audio system ready for quantum-enhanced production">>
     ELSE IF FracGeq(success_rate, 6, 10)
     THEN <<"Audio system ready for advanced quantum processing">>
     ELSE <<>>)
    \o (IF FracGeq(avg_quality, 7, 10)
        THEN <<"Conscious-level audio quality achieved">> ELSE <<>>)

\* the metrics computed once some operation succeeded; the divisions raise
\* on a zero divisor
ComputeMetrics(res, successful_ops) ==
    IF Len(successful_ops) = 0 \/ Cardinality(DOMAIN res) = 0
    THEN Raise("division by zero")
    ELSE LET n == Len(successful_ops)
             total_time == SumTimes(successful_ops)
             avg_quality == FracDivInt(SumQuality(successful_ops), n)
             success_rate == <<n, Cardinality(DOMAIN res)>>
         IN  Return([total_audio_operations  |-> Cardinality(DOMAIN res),
                     successful_operations   |-> n,
                     success_rate            |-> success_rate,
                     total_execution_time    |-> total_time,
                     average_execution_time  |-> <<total_time, n>>,
                     average_audio_quality   |-> avg_quality,
                     audio_quantum_readiness |->
                         IF n >= 4 THEN "CONSCIOUS"
                         ELSE IF n >= 2 THEN "HARMONIC" ELSE "DEVELOPING",
                     recommendations |-> Recommendations(success_rate, avg_quality)])

get_audio_performance_metrics_unguarded(res) ==
    ComputeMetrics(res, SelectSeq(ValuesOf(res), Succeeded))

\* get_audio_performance_metrics
get_audio_performance_metrics(res) ==
    LET successful_ops == SelectSeq(ValuesOf(res), Succeeded)
    IN  IF Len(successful_ops) = 0
        THEN Return([status |-> "no_successful_audio_operations"])
        ELSE ComputeMetrics(res, successful_ops)

----------------------------------------------------------------------------
(* The command-line driver: test_pitchfork_echo_studio_integration, then   *)
(* sys.exit(0 if success else 1)                                           *)

Init ==
    /\ pc = "start"
    /\ calls = <<>>
    /\ returned = <<>>
    /\ pending = NoCall
    /\ idx = 0
    /\ results = EmptyDict
    /\ metrics = NoCall
    /\ uncaught = "none"
    /\ exit_status = "running"
    /\ arg = NoCall
    /\ ret = NoCall

\* the handler `except Exception as e: ... return False`, then sys.exit(1)
DriverCatch(site) ==
    /\ uncaught' = site
    /\ exit_status' = "1"
    /\ pc' = "done"

\* pitchfork = PitchforkEchoStudioQuantum(): QbraidManager(api_key) is built
\* or raises
Construct ==
    /\ pc = "start"
    /\ \/ DriverCatch("construct")
       \/ pc' = "synthesis" /\ UNCHANGED <<uncaught, exit_status>>
    /\ UNCHANGED <<calls, returned, pending, idx, results, metrics, arg, ret>>

\* one of the three individual tests of the driver: the operation is called,
\* and its result analyzed when result.success
DriverOperation(here, operation, next) ==
    /\ pc = here
    /\ \E o \in ManagerOutcomes :
          /\ calls' = Append(calls, Job(operation, "driver", o.kind = "raise"))
          /\ IF o.kind = "raise"
             THEN DriverCatch(operation)
             ELSE IF o.value.success
                     /\ analyze_audio_effectiveness(o.value).kind = "raise"
             THEN DriverCatch("analyze_audio_effectiveness")
             ELSE pc' = next /\ UNCHANGED <<uncaught, exit_status>>
    /\ UNCHANGED <<returned, pending, idx, results, metrics, arg, ret>>

TestSynthesis == DriverOperation("synthesis", "quantum_audio_synthesis", "consciousness")

TestConsciousness == DriverOperation("consciousness", "quantum_consciousness_audio", "echo")

TestEcho == DriverOperation("echo", "quantum_echo_optimization", "suite")

\* run_all_audio_operations is entered: results = {}
SuiteStart ==
    /\ pc = "suite"
    /\ results' = EmptyDict
    /\ idx' = 1
    /\ pc' = "suite_call"
    /\ UNCHANGED <<calls, returned, pending, metrics, uncaught, exit_status, arg, ret>>

\* quantum_result = operation(): the operation builds its job and the manager
\* executes it
SuiteCall ==
    /\ pc = "suite_call"
    /\ idx <= Len(operations)
    /\ \E o \in ManagerOutcomes :
          /\ pending' = o
          /\ returned' = Append(returned, o)
          /\ calls' = Append(calls, Job(operations[idx].operation, "suite",
                                        o.kind = "raise"))
    /\ pc' = "suite_record"
    /\ UNCHANGED <<idx, results, metrics, uncaught, exit_status, arg, ret>>

SuiteRecordAbort ==
    /\ pc = "suite_record"
    /\ LET entry == suite_entry(pending)
       IN  IF "error" \in DOMAIN entry
           THEN /\ results' = results
                /\ idx' = idx
                /\ pc' = "metrics"
           ELSE /\ results' = (operations[idx].name :> entry) @@ results
                /\ idx' = idx + 1
                /\ pc' = IF idx = Len(operations) THEN "metrics" ELSE "suite_call"
    /\ pending' = NoCall
    /\ UNCHANGED <<calls, returned, metrics, uncaught, exit_status, arg, ret>>

SuiteRecordRetry ==
    /\ pc = "suite_record"
    /\ results' = (operations[idx].name :> suite_entry(pending)) @@ results
    /\ pending' = NoCall
    /\ idx' = IF pending.kind = "raise" THEN idx ELSE idx + 1
    /\ pc' = IF idx' > Len(operations) THEN "metrics" ELSE "suite_call"
    /\ UNCHANGED <<calls, returned, metrics, uncaught, exit_status, arg, ret>>

SuiteRecordReraise ==
    /\ pc = "suite_record"
    /\ LET entry == suite_entry(pending)
       IN  IF "error" \in DOMAIN entry
           THEN /\ DriverCatch("run_all_audio_operations")
                /\ UNCHANGED <<results, idx>>
           ELSE /\ results' = (operations[idx].name :> entry) @@ results
                /\ idx' = idx + 1
                /\ pc' = IF idx = Len(operations) THEN "metrics" ELSE "suite_call"
                /\ UNCHANGED <<uncaught, exit_status>>
    /\ pending' = NoCall
    /\ UNCHANGED <<calls, returned, metrics, arg, ret>>

\* the rest of the iteration: the analysis, results[name] = ..., and either
\* the next iteration or `return results`
SuiteRecord ==
    /\ pc = "suite_record"
    /\ results' = (operations[idx].name :> suite_entry(pending)) @@ results
    /\ pending' = NoCall
    /\ idx' = idx + 1
    /\ pc' = IF idx = Len(operations) THEN "metrics" ELSE "suite_call"
    /\ UNCHANGED <<calls, returned, metrics, uncaught, exit_status, arg, ret>>

\* metrics = pitchfork.get_audio_performance_metrics(audio_results)
DriverMetrics ==
    /\ pc = "metrics"
    /\ metrics' = get_audio_performance_metrics(results)
    /\ IF metrics'.kind = "raise"
       THEN DriverCatch("metrics")
       ELSE pc' = "report" /\ UNCHANGED <<uncaught, exit_status>>
    /\ UNCHANGED <<calls, returned, pending, idx, results, arg, ret>>

\* the report is printed, the test returns True and the process exits with 0
DriverReport ==
    /\ pc = "report"
    /\ exit_status' = "0"
    /\ pc' = "done"
    /\ UNCHANGED <<calls, returned, pending, idx, results, metrics, uncaught, arg, ret>>

Next ==
    \/ Construct
    \/ TestSynthesis
    \/ TestConsciousness
    \/ TestEcho
    \/ SuiteStart
    \/ SuiteCall
    \/ SuiteRecord
    \/ DriverMetrics
    \/ DriverReport

Spec == Init /\ [][Next]_vars

----------------------------------------------------------------------------
(* Direct calls of the analyzer on every input of AnalyzerInputs *)

InitAnalyze ==
    /\ pc = "analyzer"
    /\ arg \in AnalyzerInputs
    /\ ret = NoCall
    /\ calls = <<>>
    /\ returned = <<>>
    /\ pending = NoCall
    /\ idx = 0
    /\ results = EmptyDict
    /\ metrics = NoCall
    /\ uncaught = "none"
    /\ exit_status = "running"

CallAnalyze ==
    /\ pc = "analyzer"
    /\ ret' = analyze_audio_effectiveness(arg)
    /\ pc' = "analyzed"
    /\ UNCHANGED <<calls, returned, pending, idx, results, metrics, uncaught,
                   exit_status, arg>>

CallHarmony ==
    /\ pc = "analyzer"
    /\ ret' = Return(calculate_harmony(arg.counts))
    /\ pc' = "harmonized"
    /\ UNCHANGED <<calls, returned, pending, idx, results, metrics, uncaught,
                   exit_status, arg>>

NextAnalyze == CallAnalyze \/ CallHarmony

SpecAnalyze == InitAnalyze /\ [][NextAnalyze]_vars

----------------------------------------------------------------------------
(* Direct calls of the aggregator on every mapping from some of the        *)
(* operation names to entries the suite runner can store                   *)

SuiteEntries == {suite_entry(o) : o \in ManagerOutcomes}

SuiteMappings == UNION {[S -> SuiteEntries] : S \in SUBSET OperationNames}

InitMetrics ==
    /\ pc = "aggregator"
    /\ results \in SuiteMappings
    /\ metrics = NoCall
    /\ calls = <<>>
    /\ returned = <<>>
    /\ pending = NoCall
    /\ idx = 0
    /\ uncaught = "none"
    /\ exit_status = "running"
    /\ arg = NoCall
    /\ ret = NoCall

CallMetrics ==
    /\ pc = "aggregator"
    /\ metrics' = get_audio_performance_metrics(results)
    /\ pc' = "aggregated"
    /\ UNCHANGED <<calls, returned, pending, idx, results, uncaught,
                   exit_status, arg, ret>>

NextMetrics == CallMetrics

SpecMetrics == InitMetrics /\ [][NextMetrics]_vars

----------------------------------------------------------------------------
(* Properties *)

\* the calls of the manager made by run_all_audio_operations, in order
SuiteCalls == SelectSeq(calls, LAMBDA c : c.by = "suite")

\* run_all_audio_operations has returned
SuiteReturned == pc \in {"metrics", "report"} \/ (pc = "done" /\ exit_status = "0")

\* the labels of counts seen at least once
Observed(counts) == {i \in 1..Len(counts) : counts[i].count > 0}

\* the manager answered success=true with counts that are empty or sum to zero
EmptySuccess(o) ==
    /\ o.kind = "return"
    /\ o.value.success
    /\ (Len(o.value.counts) = 0 \/ SumCounts(o.value.counts) = 0)

\* iteration i of the suite raised: in the manager's call or in the analysis
IterationRaised(i) ==
    \/ returned[i].kind = "raise"
    \/ /\ returned[i].kind = "return"
       /\ analyze_audio_effectiveness(returned[i].value).kind = "raise"

\* C1: when run_all_audio_operations returns, results holds all five
\* operation names; an operation that raised (in its call or its analysis)
\* maps to an error marker carrying the failure's description, any other to
\* the pair of the manager's raw result and its analysis report; and all five
\* operations were run whatever raised.
C1_SuiteKeepsAllFive ==
    SuiteReturned =>
        /\ DOMAIN results = OperationNames
        /\ Len(returned) = Len(operations)
        /\ Len(SuiteCalls) = Len(operations)
        /\ \A i \in 1..Len(operations) :
              LET entry == results[operations[i].name]
                  o == returned[i]
              IN  IF IterationRaised(i)
                  THEN /\ DOMAIN entry = {"error"}
                       /\ entry.error =
                            IF o.kind = "raise" THEN o.error
                            ELSE analyze_audio_effectiveness(o.value).error
                  ELSE /\ DOMAIN entry = {"quantum_result", "audio_analysis"}
                       /\ entry.quantum_result = o.value
                       /\ entry.audio_analysis =
                            analyze_audio_effectiveness(o.value).value

\* exactly 2 of the 5 operations raised, the first among them, and the suite
\* returned 3 pairs and 2 error markers
C1_Witness ==
    /\ pc = "metrics"
    /\ returned[1].kind = "raise"
    /\ Cardinality({i \in 1..Len(returned) : returned[i].kind = "raise"}) = 2
    /\ Cardinality({n \in DOMAIN results : "quantum_result" \in DOMAIN results[n]}) = 3
    /\ Cardinality({n \in DOMAIN results : "error" \in DOMAIN results[n]}) = 2

\* C9: in a run of run_all_audio_operations the manager is called once per
\* operation, in the declared order, never twice for one operation; the call
\* for operation k+1 is made only once the entries of operations 1..k are
\* recorded; and five calls were made when the run returns, whatever the
\* earlier calls gave.
C9_FiveCallsInOrder ==
    /\ Len(SuiteCalls) <= Len(operations)
    /\ \A i \in 1..Len(SuiteCalls) :
          /\ i <= Len(operations)
          /\ SuiteCalls[i].operation = operations[i].operation
    /\ \A i \in 1..(Len(SuiteCalls) - 1) : operations[i].name \in DOMAIN results
    /\ Len(returned) = Len(SuiteCalls)
    /\ SuiteReturned => Len(SuiteCalls) = Len(operations)

\* the suite returned after five calls of which the second and the fourth raised
C9_Witness ==
    /\ pc = "metrics"
    /\ Len(SuiteCalls) = 5
    /\ SuiteCalls[2].raised
    /\ SuiteCalls[4].raised
    /\ SuiteCalls[5].operation = "quantum_spatial_audio"

\* C10: an operation of the suite for which the manager answered success=true
\* with empty or zero-sum counts makes the analysis raise and is recorded as
\* an error marker without its raw result; the aggregator counts it in the
\* total but not among the successes; every entry counted as successful
\* carries a report with a quality; and metrics that are not the marker have
\* 1 <= successful_operations <= total_audio_operations.
C10_EmptySuccessIsError ==
    /\ \A i \in 1..Len(returned) :
          (i < idx /\ EmptySuccess(returned[i])) =>
              /\ "error" \in DOMAIN results[operations[i].name]
              /\ "quantum_result" \notin DOMAIN results[operations[i].name]
    /\ \A n \in DOMAIN results :
          ("quantum_result" \in DOMAIN results[n] /\ results[n].quantum_result.success)
              => "audio_quality" \in DOMAIN results[n].audio_analysis
    /\ (pc \in {"report", "done"} /\ metrics.kind = "return"
        /\ "successful_operations" \in DOMAIN metrics.value) =>
          /\ metrics.value.total_audio_operations = Len(operations)
          /\ metrics.value.successful_operations =
                Cardinality({i \in 1..Len(returned) :
                                /\ returned[i].kind = "return"
                                /\ returned[i].value.success
                                /\ ~EmptySuccess(returned[i])})
          /\ 1 <= metrics.value.successful_operations
          /\ metrics.value.successful_operations <= metrics.value.total_audio_operations

\* the manager answered one call with success and no counts, another with
\* success and counts that sum to zero, and the metrics were computed
C10_Witness ==
    /\ pc = "report"
    /\ "successful_operations" \in DOMAIN metrics.value
    /\ \E i \in 1..Len(returned) :
          EmptySuccess(returned[i]) /\ Len(returned[i].value.counts) = 0
    /\ \E i \in 1..Len(returned) :
          EmptySuccess(returned[i]) /\ Len(returned[i].value.counts) > 0

\* the operations the driver and the suite call
OperationSites == {operations[i].operation : i \in 1..Len(operations)}

\* C8 as claimed: no failure raised by an individual operation (its call or
\* its analysis) changes the exit status; status 1 comes only from a failure
\* of the driver itself.
C8_OperationFailuresContained ==
    (pc = "done" /\ exit_status = "1") =>
        uncaught \notin OperationSites \cup {"analyze_audio_effectiveness"}

\* C8 as amended: a failure raised inside the suite run never changes the
\* exit status (the process exits with 0 once the suite was entered); the
\* process exits with 1 exactly when the construction of the orchestrator or
\* one of the three individually invoked operations (its call, or the
\* analysis of its successful result) raised, and with 0 otherwise.
C8_SuiteFailuresContained ==
    pc = "done" =>
        /\ exit_status \in {"0", "1"}
        /\ exit_status = "1" <=>
              uncaught \in {"construct", "analyze_audio_effectiveness",
                            "quantum_audio_synthesis",
                            "quantum_consciousness_audio",
                            "quantum_echo_optimization"}
        /\ exit_status = "0" <=> uncaught = "none"
        /\ \A i \in 1..Len(calls) :
              /\ (calls[i].by = "driver" /\ calls[i].raised) => exit_status = "1"
              /\ calls[i].by = "suite" => exit_status = "0"
        /\ exit_status = "1" => Len(SuiteCalls) = 0
        /\ exit_status = "0" => DOMAIN results = OperationNames

\* the process exited with 0 although one call of the suite raised and the
\* analysis of another raised
C8_Witness ==
    /\ pc = "done"
    /\ exit_status = "0"
    /\ \E i \in 1..Len(returned) : returned[i].kind = "raise"
    /\ \E i \in 1..Len(returned) : EmptySuccess(returned[i])

\* the largest count of a non-empty histogram
MaxCountOf(counts) ==
    CHOOSE m \in {counts[i].count : i \in 1..Len(counts)} :
        \A j \in 1..Len(counts) : counts[j].count <= m

\* C2: for a result whose success flag is false the analyzer returns the
\* error marker and never raises, whatever the counts are (empty, summing to
\* zero, or anything else).
C2_FailedResultGivesMarker ==
    (pc = "analyzed" /\ ~arg.success) =>
        ret = Return([error |-> "quantum_audio_failed"])

\* a failed result with labels whose counts sum to zero was analyzed
C2_Witness ==
    /\ pc = "analyzed"
    /\ ~arg.success
    /\ Len(arg.counts) > 0
    /\ SumCounts(arg.counts) = 0
    /\ ret.kind = "return"

\* C4: for a successful result the reported diversity is the number of labels
\* whose count is strictly greater than zero.
C4_DiversityCountsObserved ==
    (pc = "analyzed" /\ arg.success /\ ret.kind = "return") =>
        ret.value.audio_diversity = Cardinality(Observed(arg.counts))

\* C5: for a successful result of total N > 0 the analyzer returns a report
\* whose dominant outcome is a label of maximal count and whose quality is
\* that count divided by N, between 0 and 1.
C5_QualityIsMaxOverTotal ==
    (pc = "analyzed" /\ arg.success /\ SumCounts(arg.counts) > 0) =>
        /\ ret.kind = "return"
        /\ \E i \in 1..Len(arg.counts) :
              /\ arg.counts[i].label = ret.value.optimal_audio
              /\ arg.counts[i].count = MaxCountOf(arg.counts)
        /\ LET q == ret.value.audio_quality
               N == SumCounts(arg.counts)
           IN  /\ q[2] > 0
               /\ q[1] * N = MaxCountOf(arg.counts) * q[2]
               /\ 0 <= q[1]
               /\ q[1] <= q[2]

\* counts {"0101": 80, "1010": 20} gave quality 80/100 and dominant "0101"
C5_Witness ==
    /\ pc = "analyzed"
    /\ arg.success
    /\ arg.counts = ScenarioCounts
    /\ ret.value.audio_quality = <<80, 100>>
    /\ ret.value.optimal_audio = 5

\* C6: the harmony score of every histogram lies between 0 and 1 (0 and
\* HarmonyScale in fixed point); it is 0 when a single label holds all the
\* mass, and 0 when the counts sum to zero.
C6_HarmonyInUnitInterval ==
    pc = "harmonized" =>
        /\ ret.kind = "return"
        /\ 0 <= ret.value
        /\ ret.value <= HarmonyScale
        /\ Cardinality(Observed(arg.counts)) = 1 => ret.value = 0
        /\ SumCounts(arg.counts) = 0 => ret.value = 0

\* the widest uniform histogram has more than 4 bits of entropy, and its
\* score was clamped to 1
C6_Witness ==
    /\ pc = "harmonized"
    /\ arg.counts = UniformHist(MaxWide)
    /\ EntropySum(arg.counts, MaxWide) \div MaxWide > HarmonyDivisor * HarmonyScale
    /\ ret.value = HarmonyScale

\* the entries of a mapping that both ran and succeeded
RanAndSucceeded(res) ==
    {n \in DOMAIN res :
        "quantum_result" \in DOMAIN res[n] /\ res[n].quantum_result.success}

\* C3: for every suite-result mapping without an operation that both ran and
\* succeeded (the empty mapping included) the aggregator returns exactly the
\* status marker, with no average or rate, and does not raise.
C3_NoSuccessGivesMarker ==
    (pc = "aggregated" /\ RanAndSucceeded(results) = {}) =>
        metrics = Return([status |-> "no_successful_audio_operations"])

\* all five operations are in the mapping, some as error markers and some as
\* failed results, and the aggregator answered
C3_Witness ==
    /\ pc = "aggregated"
    /\ DOMAIN results = OperationNames
    /\ RanAndSucceeded(results) = {}
    /\ \E n \in DOMAIN results : "error" \in DOMAIN results[n]
    /\ \E n \in DOMAIN results : "quantum_result" \in DOMAIN results[n]
    /\ metrics.kind = "return"

\* C7: whenever successful operations / total operations >= 0.8, the value
\* 0.8 included, the recommendations hold the production-ready one.
C7_ProductionReadyAtEightTenths ==
    (/\ pc = "aggregated"
     /\ DOMAIN results # {}
     /\ 10 * Cardinality(RanAndSucceeded(results)) >= 8 * Cardinality(DOMAIN results)) =>
        /\ metrics.kind = "return"
        /\ "recommendations" \in DOMAIN metrics.value
        /\ \E i \in 1..Len(metrics.value.recommendations) :
              metrics.value.recommendations[i] =
                  "Audio system ready for quantum-enhanced production"

\* exactly 4 of 5 operations succeeded and the recommendation was given
C7_Witness ==
    /\ pc = "aggregated"
    /\ Cardinality(DOMAIN results) = 5
    /\ Cardinality(RanAndSucceeded(results)) = 4
    /\ metrics.value.success_rate = <<4, 5>>
    /\ metrics.value.recommendations[1] =
          "Audio system ready for quantum-enhanced production"

====
